---- MODULE Spec2Model ----
(***************************************************************************)
(* The CSS cascade-resolution and inlining engine of                       *)
(* src/build_from_template.py: class CSSInliner (an HTMLParser whose       *)
(* callbacks rewrite the document) and the function inline_css that        *)
(* drives it.                                                              *)
(*                                                                         *)
(* Text is modelled as a sequence of tokens.  A token is either one of     *)
(* the characters the code inspects (space, '>', '.', '#', ',', '[', ']',  *)
(* ':', ';', '&', '<') or a word: a maximal run of letters, written as one *)
(* TLA+ string.  The Python string methods the code uses (strip, split,    *)
(* count, in, join, replace) are defined on such sequences below exactly   *)
(* as they act on the characters.                                          *)
(***************************************************************************)
EXTENDS Naturals, Sequences, FiniteSets, TLC

VARIABLES
    css_rules,      \* CSSInliner.css_rules: list of (selector, declarations)
    element_stack,  \* CSSInliner.element_stack: list of (tag, id, classes)
    output,         \* CSSInliner.output: list of emitted pieces
    raised,         \* TRUE once a callback has raised an exception
    fed,            \* the events HTMLParser.feed has delivered so far
    dom,            \* the elements really open around the scan position
    matched,        \* TRUE once a rule has matched an element of this pass
    html_content,   \* inline_css: the document handed to the function
    template_dir,   \* inline_css: the stylesheet files under template_dir
    pc,             \* inline_css, parse_css: "call", "feed" or "return"
    result,         \* inline_css: the value returned
    css_content,    \* parse_css: the stylesheet text handed to the function
    parse_css_rules \* parse_css: the list `rules` it returns

vars == <<css_rules, element_stack, output, raised, fed, dom, matched,
          html_content, template_dir, pc, result, css_content,
          parse_css_rules>>

(***************************************************************************)
(* Bounds of the model.                                                    *)
(***************************************************************************)
\* Rules plus events of one run.
MaxSize == 4
\* Rules of one rule list.
MaxRules == 3
\* Events fed to one CSSInliner.
MaxEvents == 3
\* Events of one document of inline_css.
MaxDoc == 3
\* Pieces of one stylesheet text of parse_css.
MaxChunks == 3
\* Open tags fed to a CSSInliner built on one chain rule.
MaxDepth == 4

(***************************************************************************)
(* Python values and string methods.                                       *)
(***************************************************************************)
\* Python's None (an attribute without a value); no text equals it.
None == <<"<None>">>

\* str(v) as an f-string formats it.
Str(v) == IF v = None THEN <<"None">> ELSE v

SP == " "

Min(S) == CHOOSE x \in S : \A y \in S : x <= y
Max(S) == CHOOSE x \in S : \A y \in S : y <= x

\* c in s
Contains(s, c) == \E i \in 1..Len(s) : s[i] = c

\* s.count(c)
Count(s, c) == Cardinality({i \in 1..Len(s) : s[i] = c})

\* s.strip()
Strip(s) ==
    LET idx == {i \in 1..Len(s) : s[i] # SP}
    IN  IF idx = {} THEN <<>> ELSE SubSeq(s, Min(idx), Max(idx))

\* s.split(c): always at least one piece
RECURSIVE Split(_, _)
Split(s, c) ==
    LET idx == {i \in 1..Len(s) : s[i] = c}
    IN  IF idx = {} THEN <<s>>
        ELSE <<SubSeq(s, 1, Min(idx) - 1)>>
                 \o Split(SubSeq(s, Min(idx) + 1, Len(s)), c)

\* s.split(c, 1)
Split1(s, c) ==
    LET idx == {i \in 1..Len(s) : s[i] = c}
    IN  IF idx = {} THEN <<s>>
        ELSE <<SubSeq(s, 1, Min(idx) - 1), SubSeq(s, Min(idx) + 1, Len(s))>>

\* s.split(): pieces between runs of whitespace, none empty
SplitWs(s) == SelectSeq(Split(s, SP), LAMBDA p : p # <<>>)

\* sep.join(pieces)
RECURSIVE Join(_, _)
Join(pieces, sep) ==
    IF pieces = <<>> THEN <<>>
    ELSE IF Len(pieces) = 1 THEN pieces[1]
    ELSE pieces[1] \o sep \o Join(Tail(pieces), sep)

\* s.replace(c, r) for a one-character c
Replace(s, c, r) == Join(Split(s, c), r)

\* A word: a token that starts with a letter (all words here are letters).
IsWord(tok) ==
    tok \notin {" ", ">", ".", "#", ",", "[", "]", ":", ";", "&", "<", "=", "{", "}",
                "/*", "*/"}

Last(s) == s[Len(s)]
Front(s) == SubSeq(s, 1, Len(s) - 1)

(***************************************************************************)
(* Python dicts: insertion-ordered, a sequence of <<key, value>> with      *)
(* distinct keys.                                                          *)
(***************************************************************************)
DictKeys(d) == {d[i][1] : i \in 1..Len(d)}

DictGet(d, k) == d[CHOOSE i \in 1..Len(d) : d[i][1] = k][2]

\* d[k] = v: a present key keeps its place, a new key goes last
DictSet(d, k, v) ==
    IF k \in DictKeys(d)
    THEN [i \in 1..Len(d) |-> IF d[i][1] = k THEN <<k, v>> ELSE d[i]]
    ELSE Append(d, <<k, v>>)

\* d.update(e)
RECURSIVE DictUpdate(_, _)
DictUpdate(d, e) ==
    IF e = <<>> THEN d
    ELSE DictUpdate(DictSet(d, e[1][1], e[1][2]), Tail(e))

\* dict(attrs).get(name, default): the last pair of that name counts
AttrGet(attrs, name, default) ==
    LET idx == {i \in 1..Len(attrs) : attrs[i][1] = name}
    IN  IF idx = {} THEN default ELSE attrs[Max(idx)][2]

(***************************************************************************)
(* Selector matching.  An element context is <<tag, id, classes>>: tag a   *)
(* word, id a text, classes a list of texts.  A test that can raise has    *)
(* one of three outcomes: "T" (True), "F" (False), "E" (an exception).      *)
(***************************************************************************)
Bool3(b) == IF b THEN "T" ELSE "F"

\* _matches_simple_selector that is content with one of the listed classes.
_matches_simple_selector_any_class(selector, tag, element_id, element_classes) ==
    IF Contains(selector, ".")
    THEN LET parts == Split(selector, ".")
             tag_part == parts[1]
             class_parts == SelectSeq(Tail(parts), LAMBDA p : p # <<>>)
         IN  /\ (tag_part # <<>> => tag_part = <<tag>>)
             /\ \E i \in 1..Len(class_parts) :
                    \E j \in 1..Len(element_classes) :
                        element_classes[j] = class_parts[i]
    ELSE IF selector # <<>> /\ selector[1] = "#"
    THEN element_id = Tail(selector)
    ELSE IF Contains(selector, "#")
    THEN LET halves == Split1(selector, "#")
         IN  <<tag>> = halves[1] /\ element_id = halves[2]
    ELSE selector = <<tag>>

_matches_simple_selector(selector, tag, element_id, element_classes) ==
    IF Contains(selector, ".")
    THEN LET parts == Split(selector, ".")
             tag_part == parts[1]
             class_parts == SelectSeq(Tail(parts), LAMBDA p : p # <<>>)
         IN  /\ (tag_part # <<>> => tag_part = <<tag>>)
             /\ \A i \in 1..Len(class_parts) :
                    \E j \in 1..Len(element_classes) :
                        element_classes[j] = class_parts[i]
    ELSE IF selector # <<>> /\ selector[1] = "#"
    THEN element_id = Tail(selector)
    ELSE IF Contains(selector, "#")
    THEN LET halves == Split1(selector, "#")
         IN  <<tag>> = halves[1] /\ element_id = halves[2]
    ELSE selector = <<tag>>

\* The test against one stack entry.
MatchesEntry(selector, entry) ==
    _matches_simple_selector(selector, entry[1], entry[2], entry[3])

\* Lines 361-396: the scan that cuts a chain into parts and combinators.
RECURSIVE ScanChain(_, _, _)
ScanChain(selector, i, st) ==
    IF i > Len(selector)
    THEN IF st.current_part # <<>> /\ Strip(st.current_part) # <<>>
         THEN [st EXCEPT !.parts = Append(@, Strip(st.current_part))]
         ELSE st
    ELSE LET char == selector[i] IN
         IF char = ">"
         THEN ScanChain(selector, i + 1,
                  [parts |-> IF st.current_part # <<>>
                             THEN Append(st.parts, Strip(st.current_part))
                             ELSE st.parts,
                   combinators |-> Append(st.combinators, ">"),
                   current_part |-> <<>>])
         ELSE IF char = SP
         THEN IF st.current_part # <<>> /\ Strip(st.current_part) # <<>>
              THEN LET parts == Append(st.parts, Strip(st.current_part))
                   IN  ScanChain(selector, i + 1,
                           [parts |-> parts,
                            combinators |->
                                IF Len(parts) > Len(st.combinators) + 1
                                THEN Append(st.combinators, SP)
                                ELSE st.combinators,
                            current_part |-> <<>>])
              ELSE ScanChain(selector, i + 1, st)
         ELSE ScanChain(selector, i + 1,
                  [st EXCEPT !.current_part = Append(@, char)])

ChainOf(selector) ==
    ScanChain(selector, 1,
              [parts |-> <<>>, combinators |-> <<>>, current_part |-> <<>>])

\* SearchUp with the search started one entry too low.
SearchUp_skips_parent(stack, selector_part, stack_idx) ==
    LET hits == {k \in 1..(stack_idx - 1) :
                    MatchesEntry(selector_part, stack[k])}
    IN  IF hits = {} THEN 0 ELSE Max(hits)

\* Lines 424-430: the nearest entry at or below stack_idx that matches,
\* 0 when the stack is exhausted.
RECURSIVE SearchUp(_, _, _)
SearchUp(stack, selector_part, stack_idx) ==
    IF stack_idx < 1 THEN 0
    ELSE IF MatchesEntry(selector_part, stack[stack_idx]) THEN stack_idx
    ELSE SearchUp(stack, selector_part, stack_idx - 1)

\* WalkBack without the test of lines 414-415: a child combinator met when
\* no entry is left lets the chain match.
RECURSIVE WalkBack_bottom_matches(_, _, _, _, _)
WalkBack_bottom_matches(stack, parts, combinators, i, stack_idx) ==
    IF i < 1 THEN TRUE
    ELSE LET combinator ==
                 IF i <= Len(combinators) THEN combinators[i] ELSE SP
         IN  IF combinator = ">"
             THEN IF stack_idx < 1 THEN TRUE
                  ELSE IF ~MatchesEntry(parts[i], stack[stack_idx]) THEN FALSE
                  ELSE WalkBack_bottom_matches(stack, parts, combinators,
                                               i - 1, stack_idx - 1)
             ELSE LET found == SearchUp(stack, parts[i], stack_idx)
                  IN  IF found = 0 THEN FALSE
                      ELSE WalkBack_bottom_matches(stack, parts, combinators,
                                                   i - 1, found - 1)

\* Lines 409-435: the backward walk; i and stack_idx count from 1 here.
RECURSIVE WalkBack(_, _, _, _, _)
WalkBack(stack, parts, combinators, i, stack_idx) ==
    IF i < 1 THEN TRUE
    ELSE LET combinator ==
                 IF i <= Len(combinators) THEN combinators[i] ELSE SP
         IN  IF combinator = ">"
             THEN IF stack_idx < 1 THEN FALSE
                  ELSE IF ~MatchesEntry(parts[i], stack[stack_idx]) THEN FALSE
                  ELSE WalkBack(stack, parts, combinators, i - 1, stack_idx - 1)
             ELSE LET found == SearchUp(stack, parts[i], stack_idx)
                  IN  IF found = 0 THEN FALSE
                      ELSE WalkBack(stack, parts, combinators, i - 1, found - 1)

_matches_descendant_selector(stack, selector) ==
    LET chain == ChainOf(selector)
        parts == chain.parts
    IN  IF Len(parts) > Len(stack) THEN "F"
        \* element_stack[-1] and parts[-1]: IndexError on an empty list
        ELSE IF stack = <<>> \/ parts = <<>> THEN "E"
        ELSE IF ~MatchesEntry(Last(parts), Last(stack)) THEN "F"
        ELSE Bool3(WalkBack(stack, parts, chain.combinators,
                            Len(parts) - 1, Len(stack) - 1))

\* One branch of a selector: no comma in it.
MatchesBranch(stack, branch) ==
    LET selector == Strip(branch)
    IN  IF Contains(selector, SP)
        THEN _matches_descendant_selector(stack, selector)
        ELSE IF stack = <<>> THEN "F"
        ELSE Bool3(MatchesEntry(selector, Last(stack)))

\* AnyBranch that looks at the first branch only.
AnyBranch_first_only(stack, branches) ==
    IF branches = <<>> THEN "F" ELSE MatchesBranch(stack, branches[1])

\* any(...) over the branches: the first True or exception ends it.
RECURSIVE AnyBranch(_, _)
AnyBranch(stack, branches) ==
    IF branches = <<>> THEN "F"
    ELSE LET r == MatchesBranch(stack, branches[1])
         IN  IF r = "F" THEN AnyBranch(stack, Tail(branches)) ELSE r

_selector_matches(stack, selector) ==
    IF Contains(Strip(selector), ",")
    THEN AnyBranch(stack, Split(Strip(selector), ","))
    ELSE MatchesBranch(stack, selector)

(***************************************************************************)
(* Specificity: <<ids, classes, elements>>, compared as Python tuples.     *)
(***************************************************************************)
SpecificityLess(a, b) ==
    \/ a[1] < b[1]
    \/ a[1] = b[1] /\ a[2] < b[2]
    \/ a[1] = b[1] /\ a[2] = b[2] /\ a[3] < b[3]

\* BranchSpecificity without line 306: `>` is not turned into a blank.
BranchSpecificity_keeps_child(selector) ==
    LET parts == SplitWs(selector)
        Sum(f) == LET RECURSIVE S(_)
                      S(n) == IF n = 0 THEN 0 ELSE f[n] + S(n - 1)
                  IN  S(Len(parts))
    IN  << Sum([n \in 1..Len(parts) |-> Count(parts[n], "#")]),
           Sum([n \in 1..Len(parts) |->
                    Count(parts[n], ".") + Count(parts[n], "[")]),
           Sum([n \in 1..Len(parts) |->
                    IF IsWord(parts[n][1]) THEN 1 ELSE 0]) >>

\* Lines 301-322: a selector without commas.
BranchSpecificity(selector) ==
    LET parts == SplitWs(Replace(selector, ">", <<SP>>))
        Sum(f) == LET RECURSIVE S(_)
                      S(n) == IF n = 0 THEN 0 ELSE f[n] + S(n - 1)
                  IN  S(Len(parts))
    IN  << Sum([n \in 1..Len(parts) |-> Count(parts[n], "#")]),
           Sum([n \in 1..Len(parts) |->
                    Count(parts[n], ".") + Count(parts[n], "[")]),
           Sum([n \in 1..Len(parts) |->
                    IF IsWord(parts[n][1]) THEN 1 ELSE 0]) >>

\* max(...) of a non-empty list of tuples
RECURSIVE MaxSpecificity(_)
MaxSpecificity(list) ==
    IF Len(list) = 1 THEN list[1]
    ELSE LET rest == MaxSpecificity(Tail(list))
         IN  IF SpecificityLess(list[1], rest) THEN rest ELSE list[1]

\* _calculate_specificity that weighs a list by its last branch.
_calculate_specificity_last_branch(selector) ==
    IF Contains(selector, ",")
    THEN BranchSpecificity(Strip(Last(Split(selector, ","))))
    ELSE BranchSpecificity(selector)

_calculate_specificity(selector) ==
    IF Contains(selector, ",")
    THEN LET branches == Split(selector, ",")
         IN  MaxSpecificity([n \in 1..Len(branches) |->
                                 BranchSpecificity(Strip(branches[n]))])
    ELSE BranchSpecificity(selector)

(***************************************************************************)
(* The cascade of handle_starttag.  A rule is <<selector, declarations>>,  *)
(* declarations a dict from property to value.                             *)
(***************************************************************************)
\* Lines 218-221: the outcome of _selector_matches for every rule.
MatchOutcomes(stack, rules) ==
    [n \in 1..Len(rules) |-> _selector_matches(stack, rules[n][1])]

\* Lines 217-221: (specificity, selector, styles) of the rules that match,
\* in rule-list order.
RECURSIVE MatchingRules(_, _)
MatchingRules(stack, rules) ==
    IF rules = <<>> THEN <<>>
    ELSE LET rest == MatchingRules(stack, Tail(rules))
             selector == rules[1][1]
         IN  IF _selector_matches(stack, selector) = "T"
             THEN <<<<_calculate_specificity(selector), selector, rules[1][2]>>>>
                      \o rest
             ELSE rest

\* InsertByKey of a sort that is not stable: x goes before equal keys.
InsertByKey_before_equal(sorted, x) ==
    LET after == {k \in 1..Len(sorted) : SpecificityLess(sorted[k][1], x[1])}
        at == IF after = {} THEN 0 ELSE Max(after)
    IN  SubSeq(sorted, 1, at) \o <<x>> \o SubSeq(sorted, at + 1, Len(sorted))

\* Position of x in a list sorted so far: behind every entry whose key is
\* not greater (list.sort is stable).
InsertByKey(sorted, x) ==
    LET after == {k \in 1..Len(sorted) : ~SpecificityLess(x[1], sorted[k][1])}
        at == IF after = {} THEN 0 ELSE Max(after)
    IN  SubSeq(sorted, 1, at) \o <<x>> \o SubSeq(sorted, at + 1, Len(sorted))

\* SortBySpecificity left out: the rules stay in rule-list order.
SortBySpecificity_unsorted(matching_rules) == matching_rules

\* Line 224: matching_rules.sort(key=lambda x: x[0])
RECURSIVE SortBySpecificity(_)
SortBySpecificity(matching_rules) ==
    IF matching_rules = <<>> THEN <<>>
    ELSE InsertByKey(SortBySpecificity(Front(matching_rules)),
                     Last(matching_rules))

\* ApplyRules that keeps the declarations of the last rule only.
ApplyRules_last_only(applicable_styles, matching_rules) ==
    IF matching_rules = <<>> THEN applicable_styles
    ELSE Last(matching_rules)[3]

\* Lines 227-229: fold the declarations, later entries overwriting.
RECURSIVE ApplyRules(_, _)
ApplyRules(applicable_styles, matching_rules) ==
    IF matching_rules = <<>> THEN applicable_styles
    ELSE ApplyRules(DictUpdate(applicable_styles, matching_rules[1][3]),
                    Tail(matching_rules))

\* Lines 326-332: the declarations of a style text.
RECURSIVE ParseDeclarations(_, _)
ParseDeclarations(existing_dict, decls) ==
    IF decls = <<>> THEN existing_dict
    ELSE LET decl == Strip(decls[1])
         IN  IF Contains(decl, ":")
             THEN LET pv == Split1(decl, ":")
                  IN  ParseDeclarations(
                          DictSet(existing_dict, Strip(pv[1]), Strip(pv[2])),
                          Tail(decls))
             ELSE ParseDeclarations(existing_dict, Tail(decls))

\* Line 338: '; '.join(f'{prop}: {value}' ...)
FormatStyle(merged) ==
    Join([n \in 1..Len(merged) |-> merged[n][1] \o <<":", SP>> \o merged[n][2]],
         <<";", SP>>)

\* MergedDict with the update turned round: the stylesheet overwrites.
MergedDict_stylesheet_wins(existing_style, new_styles) ==
    LET existing_dict ==
            IF existing_style = None \/ existing_style = <<>> THEN <<>>
            ELSE ParseDeclarations(<<>>, Split(existing_style, ";"))
    IN  DictUpdate(existing_dict, new_styles)

\* Lines 334-336: the dict _merge_styles formats.
MergedDict(existing_style, new_styles) ==
    LET existing_dict ==
            IF existing_style = None \/ existing_style = <<>> THEN <<>>
            ELSE ParseDeclarations(<<>>, Split(existing_style, ";"))
    IN  DictUpdate(new_styles, existing_dict)

_merge_styles(existing_style, new_styles) ==
    FormatStyle(MergedDict(existing_style, new_styles))

\* Lines 226-229: applicable_styles of the element on top of the stack.
ApplicableStyles(stack, rules) ==
    ApplyRules(<<>>, SortBySpecificity(MatchingRules(stack, rules)))

\* RulesAfterCascade had applicable_styles been the dict of a rule: every
\* matching rule is left with the folded declarations.
RulesAfterCascade_shared_dict(rules, stack) ==
    [n \in 1..Len(rules) |->
        IF _selector_matches(stack, rules[n][1]) = "T"
        THEN <<rules[n][1], ApplicableStyles(stack, rules)>>
        ELSE rules[n]]

\* Lines 226-229 and 335-336: the rule list after the cascade.  The dicts
\* written into are new ones, `applicable_styles = {}` and
\* `new_styles.copy()`; the declarations of a rule are read only.
RulesAfterCascade(rules, stack) == rules

\* Lines 231-249: the attribute list the tag is emitted with.
NewAttrs(attrs, applicable_styles) ==
    IF applicable_styles = <<>> THEN attrs
    ELSE LET merged_style ==
                 _merge_styles(AttrGet(attrs, "style", <<>>), applicable_styles)
             replaced == [n \in 1..Len(attrs) |->
                              IF attrs[n][1] = "style"
                              THEN <<"style", merged_style>> ELSE attrs[n]]
         IN  IF \E n \in 1..Len(attrs) : attrs[n][1] = "style"
             THEN replaced
             ELSE Append(replaced, <<"style", merged_style>>)

(***************************************************************************)
(* parse_css.  In a stylesheet text "/*" and "*/" are one token each.      *)
(***************************************************************************)
\* Line 171: re.sub(r'/\*.*?\*/', '', ...): every stretch from a "/*" to the
\* nearest "*/" behind it is cut out; a "/*" that is never closed stays.
RECURSIVE RemoveComments(_)
RemoveComments(s) ==
    LET opens == {i \in 1..Len(s) : s[i] = "/*"}
    IN  IF opens = {} THEN s
        ELSE LET closes == {j \in (Min(opens) + 1)..Len(s) : s[j] = "*/"}
             IN  IF closes = {} THEN s
                 ELSE SubSeq(s, 1, Min(opens) - 1)
                          \o RemoveComments(SubSeq(s, Min(closes) + 1, Len(s)))

\* Lines 174-176: re.finditer(r'([^{]+)\{([^}]+)\}', ...) from position pos.
\* A match starts at the first character that is no "{", runs to the next
\* "{" and from there to the next "}", with at least one character between
\* the two; where there is none the search goes on behind that "{".
RECURSIVE RuleMatches(_, _)
RuleMatches(s, pos) ==
    IF pos > Len(s) THEN <<>>
    ELSE IF s[pos] = "{" THEN RuleMatches(s, pos + 1)
    ELSE LET opens == {i \in (pos + 1)..Len(s) : s[i] = "{"}
         IN  IF opens = {} THEN <<>>
             ELSE LET b == Min(opens)
                      closes == {j \in (b + 1)..Len(s) : s[j] = "}"}
                  IN  IF closes = {} THEN <<>>
                      ELSE IF Min(closes) = b + 1 THEN RuleMatches(s, b + 1)
                      ELSE << <<SubSeq(s, pos, b - 1),
                                SubSeq(s, b + 1, Min(closes) - 1)>> >>
                               \o RuleMatches(s, Min(closes) + 1)

\* Lines 180-186: the dict of one declaration block.
ParseBlock(declarations) ==
    ParseDeclarations(<<>>, Split(declarations, ";"))

\* CollectRules without the test of line 188: every match gives a rule.
RECURSIVE CollectRules_keeps_empty(_)
CollectRules_keeps_empty(matches) ==
    IF matches = <<>> THEN <<>>
    ELSE << <<Strip(matches[1][1]), ParseBlock(Strip(matches[1][2]))>> >>
             \o CollectRules_keeps_empty(Tail(matches))

\* Lines 176-189: the loop over the matches.
RECURSIVE CollectRules(_)
CollectRules(matches) ==
    IF matches = <<>> THEN <<>>
    ELSE LET selector == Strip(matches[1][1])
             styles == ParseBlock(Strip(matches[1][2]))
         IN  (IF styles # <<>> THEN << <<selector, styles>> >> ELSE <<>>)
                 \o CollectRules(Tail(matches))

parse_css(text) == CollectRules(RuleMatches(RemoveComments(text), 1))

(***************************************************************************)
(* Emitted pieces.  The text f'<{tag}{attrs_str}>' is kept as the record   *)
(* of its parts; every attribute is written name="value" with the value    *)
(* formatted by str().                                                     *)
(***************************************************************************)
Piece(kind, tag, attrs, data) ==
    [kind |-> kind, tag |-> tag, attrs |-> attrs, data |-> data]

\* Lines 252 and 283: attrs_str
AttrsStr(attrs) == [n \in 1..Len(attrs) |-> <<attrs[n][1], Str(attrs[n][2])>>]

\* Lines 205-208 and 278-281
IsStylesheetLink(tag, attrs) ==
    tag = "link" /\ AttrGet(attrs, "rel", None) = <<"stylesheet">>

(***************************************************************************)
(* The callbacks of CSSInliner.                                            *)
(***************************************************************************)
handle_starttag(tag, attrs) ==
    IF IsStylesheetLink(tag, attrs)
    THEN UNCHANGED <<element_stack, output, raised, css_rules>>
    ELSE IF AttrGet(attrs, "class", <<>>) = None
    \* line 212: None.split() raises AttributeError, before the push
    THEN raised' = TRUE /\ UNCHANGED <<element_stack, output, css_rules>>
    ELSE LET element_classes == SplitWs(AttrGet(attrs, "class", <<>>))
             element_id == AttrGet(attrs, "id", <<>>)
             stack == Append(element_stack, <<tag, element_id, element_classes>>)
             outcomes == MatchOutcomes(stack, css_rules)
         IN  /\ element_stack' = stack
             /\ IF \E n \in 1..Len(css_rules) : outcomes[n] = "E"
                THEN raised' = TRUE /\ UNCHANGED <<output, css_rules>>
                ELSE /\ output' = Append(output,
                            Piece("starttag", tag,
                                  AttrsStr(NewAttrs(attrs,
                                      ApplicableStyles(stack, css_rules))),
                                  <<>>))
                     /\ css_rules' = RulesAfterCascade(css_rules, stack)
                     /\ UNCHANGED raised

\* handle_endtag that pops down to the nearest entry of the closing name.
handle_endtag_pops_nearest(tag) ==
    IF tag = "link"
    THEN UNCHANGED <<element_stack, output, raised, css_rules>>
    ELSE /\ element_stack' =
                IF \E k \in 1..Len(element_stack) : element_stack[k][1] = tag
                THEN SubSeq(element_stack, 1,
                            Max({k \in 1..Len(element_stack) :
                                    element_stack[k][1] = tag}) - 1)
                ELSE element_stack
         /\ output' = Append(output, Piece("endtag", tag, <<>>, <<>>))
         /\ UNCHANGED <<raised, css_rules>>

handle_endtag(tag) ==
    IF tag = "link"
    THEN UNCHANGED <<element_stack, output, raised, css_rules>>
    ELSE /\ element_stack' =
                IF element_stack # <<>> /\ Last(element_stack)[1] = tag
                THEN Front(element_stack) ELSE element_stack
         /\ output' = Append(output, Piece("endtag", tag, <<>>, <<>>))
         /\ UNCHANGED <<raised, css_rules>>

\* Line 200: HTMLParser.__init__ is called without convert_charrefs=False,
\* so feed() turns every character reference of a text into the character
\* it names before handle_data gets the text; handle_entityref and
\* handle_charref are never called.  A reference is one token.
Unescape(text) ==
    [n \in 1..Len(text) |->
        CASE text[n] = "&amp;" -> "&"
          [] text[n] = "&lt;" -> "<"
          [] text[n] = "&gt;" -> ">"
          [] text[n] = "&nbsp;" -> "U+00A0"
          [] text[n] = "&#169;" -> "U+00A9"
          [] OTHER -> text[n]]

\* Lines 266-268
Escape(data) ==
    Replace(Replace(Replace(data, "&", <<"&amp;">>), "<", <<"&lt;">>),
            ">", <<"&gt;">>)

handle_data(data) ==
    /\ output' = Append(output, Piece("data", "", <<>>, Escape(data)))
    /\ UNCHANGED <<element_stack, raised, css_rules>>

\* handle_startendtag that leaves the element on the stack.
handle_startendtag_pushes(tag, attrs) ==
    IF IsStylesheetLink(tag, attrs)
    THEN UNCHANGED <<element_stack, output, raised, css_rules>>
    ELSE /\ output' = Append(output,
                             Piece("startendtag", tag, AttrsStr(attrs), <<>>))
         /\ element_stack' = Append(element_stack, <<tag, <<>>, <<>>>>)
         /\ UNCHANGED <<raised, css_rules>>

handle_startendtag(tag, attrs) ==
    IF IsStylesheetLink(tag, attrs)
    THEN UNCHANGED <<element_stack, output, raised, css_rules>>
    ELSE /\ output' = Append(output,
                             Piece("startendtag", tag, AttrsStr(attrs), <<>>))
         /\ UNCHANGED <<element_stack, raised, css_rules>>

handle_comment(data) ==
    /\ output' = Append(output, Piece("comment", "", <<>>, data))
    /\ UNCHANGED <<element_stack, raised, css_rules>>

handle_decl(decl) ==
    /\ output' = Append(output, Piece("decl", "", <<>>, decl))
    /\ UNCHANGED <<element_stack, raised, css_rules>>

(***************************************************************************)
(* Inputs: the rule lists and the events the runs draw from.               *)
(***************************************************************************)
Red == << <<<<"color">>, <<"red">>>> >>
BlueWithMargin == << <<<<"color">>, <<"blue">>>>, <<<<"margin">>, <<"0">>>> >>

Declarations == { Red, BlueWithMargin }

\* The rule written `#x, p`.
GroupRule == << <<"#", "x", ",", " ", "p">>, Red >>

\* One rule for each selector; rules of equal and of different specificity
\* disagree on color.
Rules ==
    { << <<"p">>, Red >>,
      << <<".", "a">>, Red >>,
      << <<".", "b">>, BlueWithMargin >>,
      << <<"#", "x">>, BlueWithMargin >>,
      << <<".", "a", ".", "b">>, Red >>,
      << <<".", "a", " ", ".", "b">>, BlueWithMargin >>,
      << <<".", "a", " ", ">", " ", ".", "b">>, Red >>,
      << <<">", " ", ">">>, Red >>,
      GroupRule }

Selectors == { r[1] : r \in Rules }

RuleLists == UNION {[1..k -> Rules] : k \in 0..MaxRules}

Event(kind, tag, attrs, data) ==
    [kind |-> kind, tag |-> tag, attrs |-> attrs, data |-> data]

\* style="color:green; width: 1;"
InlineStyle == <<"color", ":", "green", ";", " ", "width", ":", " ", "1", ";">>

StartTags ==
    { Event("starttag", "div", << <<"class", <<"a">>>> >>, <<>>),
      Event("starttag", "div", <<>>, <<>>),
      Event("starttag", "p", << <<"class", <<"b">>>> >>, <<>>),
      Event("starttag", "p", << <<"style", InlineStyle>>, <<"id", <<"x">>>>,
                                <<"class", <<"a", " ", "b">>>> >>, <<>>),
      Event("starttag", "p", << <<"id", <<"x">>>>,
                                <<"class", <<"a", " ", "b">>>> >>, <<>>),
      Event("starttag", "img", << <<"class", <<"a">>>> >>, <<>>),
      Event("starttag", "input", << <<"disabled", None>>,
                                    <<"class", <<"b">>>> >>, <<>>),
      Event("starttag", "link", << <<"rel", <<"stylesheet">>>>,
                                   <<"href", <<"s.css">>>> >>, <<>>),
      Event("starttag", "link", << <<"rel", <<"icon">>>> >>, <<>>),
      Event("starttag", "div", << <<"class", None>> >>, <<>>) }

StartEndTags ==
    { Event("startendtag", "img", << <<"class", <<"b">>>> >>, <<>>),
      Event("startendtag", "link", << <<"rel", <<"stylesheet">>>>,
                                      <<"href", <<"s.css">>>> >>, <<>>) }

EndTags == { Event("endtag", t, <<>>, <<>>) : t \in {"div", "p", "link"} }

\* a < & > &amp;&nbsp;&#169;
DataTexts ==
    { <<"a", " ", "<", " ", "&", " ", ">", " ", "&amp;", "&nbsp;", "&#169;">> }
Comments == { <<"note">> }
Decls == { <<"DOCTYPE", " ", "html">> }

(***************************************************************************)
(* The elements really open around the scan position (HTML's reading of    *)
(* the document, which the code never sees): a void element has no content *)
(* and is never open; an end tag closes the nearest open element of its    *)
(* name and everything opened inside it.                                   *)
(***************************************************************************)
VoidTags == {"img", "input", "link", "br"}

ContextOf(ev) ==
    LET class == AttrGet(ev.attrs, "class", <<>>)
    IN  << ev.tag, AttrGet(ev.attrs, "id", <<>>),
           IF class = None THEN <<>> ELSE SplitWs(class) >>

DomAfter(ev) ==
    IF ev.kind = "starttag" /\ ev.tag \notin VoidTags
    THEN Append(dom, ContextOf(ev))
    ELSE IF ev.kind = "endtag" /\ \E k \in 1..Len(dom) : dom[k][1] = ev.tag
    THEN SubSeq(dom, 1, Max({k \in 1..Len(dom) : dom[k][1] = ev.tag}) - 1)
    ELSE dom

\* Whether the open tag ev, now on top of stack, is matched by a rule.
MatchedBy(ev, stack) ==
    /\ ev.kind = "starttag"
    /\ ~IsStylesheetLink(ev.tag, ev.attrs)
    /\ AttrGet(ev.attrs, "class", <<>>) # None
    /\ \E n \in 1..Len(css_rules) :
           _selector_matches(stack, css_rules[n][1]) = "T"

\* What every delivery of an event leaves behind.
Delivered(ev) ==
    /\ fed' = Append(fed, ev)
    /\ dom' = IF raised' THEN dom ELSE DomAfter(ev)
    /\ matched' = (matched \/ MatchedBy(ev, element_stack'))
    /\ UNCHANGED <<html_content, template_dir, pc, result, css_content,
                   parse_css_rules>>

(***************************************************************************)
(* Spec: a CSSInliner built on a rule list and fed events one by one.      *)
(***************************************************************************)
Init ==
    /\ css_rules \in RuleLists
    /\ element_stack = <<>>
    /\ output = <<>>
    /\ raised = FALSE
    /\ fed = <<>>
    /\ dom = <<>>
    /\ matched = FALSE
    /\ html_content = <<>>
    /\ template_dir = <<>>
    /\ pc = "feed"
    /\ result = <<>>
    /\ css_content = <<>>
    /\ parse_css_rules = <<>>

\* feed() delivers the next event unless a callback has raised.
Feedable ==
    /\ pc = "feed"
    /\ ~raised
    /\ Len(fed) < MaxEvents
    /\ Len(fed) + Len(css_rules) < MaxSize

StartTag ==
    \E ev \in StartTags :
        Feedable /\ handle_starttag(ev.tag, ev.attrs) /\ Delivered(ev)

EndTag ==
    \E ev \in EndTags : Feedable /\ handle_endtag(ev.tag) /\ Delivered(ev)

StartEndTag ==
    \E ev \in StartEndTags :
        Feedable /\ handle_startendtag(ev.tag, ev.attrs) /\ Delivered(ev)

Data ==
    \E d \in DataTexts :
        /\ Feedable
        /\ handle_data(Unescape(d))
        /\ Delivered(Event("data", "", <<>>, d))

Comment ==
    \E d \in Comments :
        Feedable /\ handle_comment(d) /\ Delivered(Event("comment", "", <<>>, d))

Decl ==
    \E d \in Decls :
        Feedable /\ handle_decl(d) /\ Delivered(Event("decl", "", <<>>, d))

Next == StartTag \/ EndTag \/ StartEndTag \/ Data \/ Comment \/ Decl

Spec == Init /\ [][Next]_vars

(***************************************************************************)
(* SpecInlineCss: the function inline_css on a whole document.  The        *)
(* document is the sequence of its events, each standing for its text      *)
(* written as <tag name="value" ...>, one space between the parts.         *)
(***************************************************************************)
StylesheetHrefFirst ==
    Event("starttag", "link", << <<"href", <<"s.css">>>>,
                                 <<"rel", <<"stylesheet">>>> >>, <<>>)

DocEvents ==
    { Event("starttag", "link", << <<"rel", <<"stylesheet">>>>,
                                   <<"href", <<"s.css">>>> >>, <<>>),
      Event("startendtag", "link", << <<"rel", <<"stylesheet">>>>,
                                      <<"href", <<"../", "t.css">>>> >>, <<>>),
      StylesheetHrefFirst,
      Event("starttag", "p", << <<"class", <<"b">>>> >>, <<>>),
      Event("endtag", "p", <<>>, <<>>),
      Event("endtag", "link", <<>>, <<>>),
      Event("data", "", <<>>, <<"x">>) }

Docs == UNION {[1..k -> DocEvents] : k \in 0..MaxDoc}

FileNames == { <<"s.css">>, <<"t.css">> }

\* css_path.exists(), and the text read_text returns
Files ==
    { [exists |-> FALSE, text |-> <<>>],
      [exists |-> TRUE, text |-> <<>>],
      [exists |-> TRUE,
       text |-> <<"p", " ", "{", " ", "color", ":", " ", "red", ";", " ", "}">>] }

\* Line 486: <link\s+rel="stylesheet"\s+href="([^"]+)" finds a link tag
\* whose first two attributes are rel="stylesheet" and a non-empty href.
LinkPatternMatches(ev) ==
    /\ ev.kind \in {"starttag", "startendtag"}
    /\ ev.tag = "link"
    /\ Len(ev.attrs) >= 2
    /\ ev.attrs[1] = <<"rel", <<"stylesheet">>>>
    /\ ev.attrs[2][1] = "href"
    /\ ev.attrs[2][2] \notin {None, <<>>}

\* Line 487: re.findall, the hrefs in document order
RECURSIVE CssFiles(_)
CssFiles(html) ==
    IF html = <<>> THEN <<>>
    ELSE (IF LinkPatternMatches(html[1]) THEN <<html[1].attrs[2][2]>> ELSE <<>>)
             \o CssFiles(Tail(html))

\* Lines 496-498: leading ../ segments dropped
RECURSIVE Normalized(_)
Normalized(css_file) ==
    IF css_file # <<>> /\ css_file[1] = "../"
    THEN Normalized(Tail(css_file)) ELSE css_file

\* Lines 493-505: the rules of every referenced file that exists
RECURSIVE LoadRules(_, _)
LoadRules(dir, css_files) ==
    IF css_files = <<>> THEN <<>>
    ELSE LET file == dir[Normalized(css_files[1])]
         IN  (IF file.exists THEN parse_css(file.text) ELSE <<>>)
                 \o LoadRules(dir, Tail(css_files))

InitInlineCss ==
    /\ html_content \in Docs
    /\ template_dir \in [FileNames -> Files]
    /\ pc = "call"
    /\ css_rules = <<>>
    /\ element_stack = <<>>
    /\ output = <<>>
    /\ raised = FALSE
    /\ fed = <<>>
    /\ dom = <<>>
    /\ matched = FALSE
    /\ result = <<>>
    /\ css_content = <<>>
    /\ parse_css_rules = <<>>

\* Lines 485-490: no reference found, the document is returned as it is.
inline_css_unchanged ==
    /\ pc = "call"
    /\ CssFiles(html_content) = <<>>
    /\ result' = html_content
    /\ pc' = "return"
    /\ UNCHANGED <<css_rules, element_stack, output, raised, fed, dom,
                   matched, html_content, template_dir, css_content,
                   parse_css_rules>>

\* Lines 492-508: the rules are loaded and the inliner is built on them.
inline_css_load ==
    /\ pc = "call"
    /\ CssFiles(html_content) # <<>>
    /\ css_rules' = LoadRules(template_dir, CssFiles(html_content))
    /\ pc' = "feed"
    /\ UNCHANGED <<element_stack, output, raised, fed, dom, matched,
                   html_content, template_dir, result, css_content,
                   parse_css_rules>>

\* Line 509: feed() delivers the events of the document in order.
Handle(ev) ==
    CASE ev.kind = "starttag" -> handle_starttag(ev.tag, ev.attrs)
      [] ev.kind = "endtag" -> handle_endtag(ev.tag)
      [] ev.kind = "startendtag" -> handle_startendtag(ev.tag, ev.attrs)
      [] ev.kind = "data" -> handle_data(Unescape(ev.data))
      [] ev.kind = "comment" -> handle_comment(ev.data)
      [] ev.kind = "decl" -> handle_decl(ev.data)

inline_css_feed ==
    /\ pc = "feed"
    /\ ~raised
    /\ Len(fed) < Len(html_content)
    /\ Handle(html_content[Len(fed) + 1])
    /\ Delivered(html_content[Len(fed) + 1])

\* Line 511: get_output()
inline_css_return ==
    /\ pc = "feed"
    /\ ~raised
    /\ Len(fed) = Len(html_content)
    /\ result' = output
    /\ pc' = "return"
    /\ UNCHANGED <<css_rules, element_stack, output, raised, fed, dom,
                   matched, html_content, template_dir, css_content,
                   parse_css_rules>>

NextInlineCss ==
    inline_css_unchanged \/ inline_css_load \/ inline_css_feed
        \/ inline_css_return

SpecInlineCss == InitInlineCss /\ [][NextInlineCss]_vars

(***************************************************************************)
(* SpecParseCss: the function parse_css on a stylesheet text.  The text is *)
(* put together from up to MaxChunks pieces.                               *)
(***************************************************************************)
\* p { color: red; }
RuleP == <<"p", " ", "{", " ", "color", ":", " ", "red", ";", " ", "}">>
\* .b{color:blue;margin:0}
RuleB == <<".", "b", "{", "color", ":", "blue", ";", "margin", ":", "0", "}">>
\* .a {}
BlockEmpty == <<".", "a", " ", "{", "}">>
\* .a { }
BlockBlank == <<".", "a", " ", "{", " ", "}">>
\* .a { x; y }
BlockNoColon == <<".", "a", " ", "{", " ", "x", ";", " ", "y", " ", "}">>
\* #x { : }
BlockColonOnly == <<"#", "x", " ", "{", " ", ":", " ", "}">>
\* /* c */
CommentChunk == <<"/*", " ", "c", " ", "*/">>
\* a comment that is opened only
CommentOpen == <<"/*", " ">>

Chunks ==
    { RuleP, RuleB, BlockEmpty, BlockBlank, BlockNoColon, BlockColonOnly,
      CommentChunk, <<" ">>, CommentOpen, <<"}">> }

ChunkLists == UNION {[1..k -> Chunks] : k \in 0..MaxChunks}

\* The text a list of pieces stands for.
TextOf(chunks) == Join(chunks, <<>>)

CssTexts == { TextOf(chunks) : chunks \in ChunkLists }

InitParseCss ==
    /\ css_content \in CssTexts
    /\ parse_css_rules = <<>>
    /\ pc = "call"
    /\ css_rules = <<>>
    /\ element_stack = <<>>
    /\ output = <<>>
    /\ raised = FALSE
    /\ fed = <<>>
    /\ dom = <<>>
    /\ matched = FALSE
    /\ html_content = <<>>
    /\ template_dir = <<>>
    /\ result = <<>>

parse_css_return ==
    /\ pc = "call"
    /\ parse_css_rules' = parse_css(css_content)
    /\ pc' = "return"
    /\ UNCHANGED <<css_rules, element_stack, output, raised, fed, dom,
                   matched, html_content, template_dir, result, css_content>>

NextParseCss == parse_css_return

SpecParseCss == InitParseCss /\ [][NextParseCss]_vars

(***************************************************************************)
(* SpecChain: a CSSInliner built on one rule whose selector is a           *)
(* combinator chain or a list, fed up to MaxDepth open tags of elements    *)
(* with content, so that the selector is tested on stacks of that depth.   *)
(***************************************************************************)
\* A chain as it is written: its text, its simple selectors, and the
\* combinator written between each two of them.
Chain(text, parts, combinators) ==
    [text |-> text, parts |-> parts, combinators |-> combinators]

Chains ==
    { Chain(<<".", "a", " ", ".", "b">>,
            << <<".", "a">>, <<".", "b">> >>, <<SP>>),
      Chain(<<".", "a", " ", ">", " ", ".", "b">>,
            << <<".", "a">>, <<".", "b">> >>, <<">">>),
      Chain(<<"div", " ", ".", "a", ">", ".", "b">>,
            << <<"div">>, <<".", "a">>, <<".", "b">> >>, <<SP, ">">>),
      Chain(<<"div", " ", ".", "a", " ", ">", " ", ".", "b">>,
            << <<"div">>, <<".", "a">>, <<".", "b">> >>, <<SP, ">">>),
      Chain(<<"div", ">", ".", "a", " ", ".", "b">>,
            << <<"div">>, <<".", "a">>, <<".", "b">> >>, <<">", SP>>),
      Chain(<<".", "a", " ", ">", " ", "div", " ", ".", "b">>,
            << <<".", "a">>, <<"div">>, <<".", "b">> >>, <<">", SP>>) }

ChainRuleLists == { << <<c.text, Red>> >> : c \in Chains } \cup { <<GroupRule>> }

ChainStartTags ==
    { Event("starttag", "div", << <<"class", <<"a">>>> >>, <<>>),
      Event("starttag", "div", <<>>, <<>>),
      Event("starttag", "p", << <<"class", <<"b">>>> >>, <<>>),
      Event("starttag", "p", << <<"id", <<"x">>>>,
                                <<"class", <<"a", " ", "b">>>> >>, <<>>) }

InitChain ==
    /\ css_rules \in ChainRuleLists
    /\ element_stack = <<>>
    /\ output = <<>>
    /\ raised = FALSE
    /\ fed = <<>>
    /\ dom = <<>>
    /\ matched = FALSE
    /\ html_content = <<>>
    /\ template_dir = <<>>
    /\ pc = "feed"
    /\ result = <<>>
    /\ css_content = <<>>
    /\ parse_css_rules = <<>>

ChainStartTag ==
    \E ev \in ChainStartTags :
        /\ pc = "feed"
        /\ ~raised
        /\ Len(fed) < MaxDepth
        /\ handle_starttag(ev.tag, ev.attrs)
        /\ Delivered(ev)

NextChain == ChainStartTag

SpecChain == InitChain /\ [][NextChain]_vars

(***************************************************************************)
(* What the claims speak of.                                               *)
(***************************************************************************)
\* The last event was an open tag and handle_starttag has emitted it: the
\* element is on top of element_stack and its tag is the last piece.
StartTagEmitted ==
    /\ fed # <<>>
    /\ Last(fed).kind = "starttag"
    /\ ~IsStylesheetLink(Last(fed).tag, Last(fed).attrs)
    /\ ~raised

HasAttr(attrs, name) == \E n \in 1..Len(attrs) : attrs[n][1] = name

\* The declarations of the style attribute of an attribute list.
StyleOf(attrs) ==
    IF ~HasAttr(attrs, "style") THEN <<>>
    ELSE ParseDeclarations(<<>>, Split(AttrGet(attrs, "style", <<>>), ";"))

InlineStyleDict == StyleOf(Last(fed).attrs)
EmittedStyleDict == StyleOf(Last(output).attrs)

\* The rules (by position) that match the element on top of the stack.
MatchingIndexes ==
    {n \in 1..Len(css_rules) :
        _selector_matches(element_stack, css_rules[n][1]) = "T"}

\* The matching rules that set property p, and those of them that no other
\* one exceeds in specificity.
Setters(p) == {n \in MatchingIndexes : p \in DictKeys(css_rules[n][2])}

SpecificityOf(n) == _calculate_specificity(css_rules[n][1])

TopSetters(p) ==
    {n \in Setters(p) :
        \A m \in Setters(p) : ~SpecificityLess(SpecificityOf(n), SpecificityOf(m))}

RuleProperties == UNION {DictKeys(css_rules[n][2]) : n \in 1..Len(css_rules)}

\* C1: an open tag with a style attribute that some rule matches is emitted
\* with the inline value for every property that both the inline style and a
\* matching rule set, whatever the rule's specificity or position.
C1_InlineWins ==
    (StartTagEmitted /\ HasAttr(Last(fed).attrs, "style")
        /\ MatchingIndexes # {})
    => \A p \in DictKeys(InlineStyleDict) :
           Setters(p) # {}
           => /\ p \in DictKeys(EmittedStyleDict)
              /\ DictGet(EmittedStyleDict, p) = DictGet(InlineStyleDict, p)

\* Two rules of different specificity set a property of the inline style.
C1_Witness ==
    /\ StartTagEmitted
    /\ HasAttr(Last(fed).attrs, "style")
    /\ \E p \in DictKeys(InlineStyleDict) :
           /\ \E i, j \in Setters(p) :
                  SpecificityLess(SpecificityOf(i), SpecificityOf(j))
           /\ DictGet(EmittedStyleDict, p) = <<"green">>

\* C2: when matching rules of different specificity set a property that the
\* inline style leaves alone, the emitted value is that of a rule of the
\* greatest specificity, wherever that rule stands in the rule list.
C2_SpecificityOrdering ==
    StartTagEmitted
    => \A p \in RuleProperties \ DictKeys(InlineStyleDict) :
           Cardinality(Setters(p)) >= 2
           => /\ p \in DictKeys(EmittedStyleDict)
              /\ \E n \in TopSetters(p) :
                     DictGet(EmittedStyleDict, p) = DictGet(css_rules[n][2], p)

\* The rule of greater specificity comes first in the list, sets another
\* value than the later and lower one, and its value is emitted.
C2_Witness ==
    /\ StartTagEmitted
    /\ \E p \in RuleProperties \ DictKeys(InlineStyleDict) :
           \E i, j \in Setters(p) :
               /\ i < j
               /\ i \in TopSetters(p)
               /\ SpecificityLess(SpecificityOf(j), SpecificityOf(i))
               /\ DictGet(css_rules[i][2], p) # DictGet(css_rules[j][2], p)
               /\ DictGet(EmittedStyleDict, p) = DictGet(css_rules[i][2], p)

\* C3: among matching rules of equal (greatest) specificity that set the same
\* property, the value of the one latest in the rule list is emitted.
C3_EqualSpecificityTieBreak ==
    StartTagEmitted
    => \A p \in RuleProperties \ DictKeys(InlineStyleDict) :
           Cardinality(TopSetters(p)) >= 2
           => /\ p \in DictKeys(EmittedStyleDict)
              /\ DictGet(EmittedStyleDict, p)
                     = DictGet(css_rules[Max(TopSetters(p))][2], p)

\* Three matching rules of one specificity, the last with another value than
\* the one before it.
C3_Witness ==
    /\ StartTagEmitted
    /\ \E p \in RuleProperties \ DictKeys(InlineStyleDict) :
           /\ Cardinality(TopSetters(p)) = 3
           /\ DictGet(css_rules[3][2], p) # DictGet(css_rules[2][2], p)
           /\ DictGet(EmittedStyleDict, p) = DictGet(css_rules[3][2], p)

\* Simple selectors the combinator claims range over.
SimpleSelectors ==
    { <<"p">>, <<"div">>, <<".", "a">>, <<".", "b">>, <<"#", "x">>,
      <<".", "a", ".", "b">>, <<"p", ".", "b">>, <<"p", "#", "x">> }

Descendant(A, B) == A \o <<SP>> \o B
Child(A, B) == A \o <<SP, ">", SP>> \o B

\* The elements really open around the element of the last open tag.
Ancestors == IF Last(fed).tag \in VoidTags THEN dom ELSE Front(dom)

\* C4: `A B` matches the element being opened whenever it matches B and some
\* element open around it, at any depth, matches A.
C4_DescendantCombinator ==
    (StartTagEmitted /\ Ancestors # <<>>)
    => \A A \in SimpleSelectors, B \in SimpleSelectors :
           ( /\ MatchesEntry(B, Last(element_stack))
             /\ \E k \in 1..Len(Ancestors) : MatchesEntry(A, Ancestors[k]) )
           => _selector_matches(element_stack, Descendant(A, B)) = "T"

\* `.a .b` matches through a grandparent only: neither the parent nor the
\* element itself has class a.
C4_Witness ==
    /\ StartTagEmitted
    /\ Len(Ancestors) = 2
    /\ MatchesEntry(<<".", "a">>, Ancestors[1])
    /\ ~MatchesEntry(<<".", "a">>, Ancestors[2])
    /\ ~MatchesEntry(<<".", "a">>, Last(element_stack))
    /\ \E n \in MatchingIndexes :
           css_rules[n][1] = Descendant(<<".", "a">>, <<".", "b">>)
    /\ HasAttr(Last(output).attrs, "style")

\* C5: `A > B` matches the element being opened only when the innermost
\* element still open around it matches A.
C5_ChildCombinator ==
    StartTagEmitted
    => \A A \in SimpleSelectors, B \in SimpleSelectors :
           _selector_matches(element_stack, Child(A, B)) = "T"
           => /\ Ancestors # <<>>
              /\ MatchesEntry(A, Last(Ancestors))

\* A piece that is a stylesheet link tag.
IsStylesheetLinkPiece(piece) ==
    /\ piece.kind \in {"starttag", "startendtag"}
    /\ IsStylesheetLink(piece.tag, piece.attrs)

\* C6: whatever inline_css returns for a document holds no stylesheet link
\* tag, in whatever form or attribute order the document wrote it.
C6_NoStylesheetLinkReturned ==
    pc = "return"
    => \A k \in 1..Len(result) : ~IsStylesheetLinkPiece(result[k])

\* No stylesheet link among the events delivered.
NoStylesheetLinkFed ==
    \A k \in 1..Len(fed) :
        ~(fed[k].kind \in {"starttag", "startendtag"}
            /\ IsStylesheetLink(fed[k].tag, fed[k].attrs))

\* An event as the text it was parsed from: a piece with the same name, the
\* same attributes with the same values (None: no value), the same text.
SourcePiece(ev) ==
    Piece(ev.kind, ev.tag, ev.attrs,
          IF ev.kind = "data" THEN Escape(ev.data) ELSE ev.data)

\* C7: without stylesheet links and without a rule that matches an element,
\* every tag, close tag, text, comment and declaration is emitted unchanged.
C7_UnchangedWithoutMatch ==
    (NoStylesheetLinkFed /\ ~matched /\ ~raised)
    => output = [k \in 1..Len(fed) |-> SourcePiece(fed[k])]

\* C8: no callback raises, whatever the rule list and the events.
C8_NeverRaises == ~raised

\* C9: a self-closing tag that is no stylesheet link is emitted with the
\* attributes handle_starttag gives the same tag in open form.
C9_SelfClosingStyled ==
    ( /\ fed # <<>>
      /\ Last(fed).kind = "startendtag"
      /\ ~IsStylesheetLink(Last(fed).tag, Last(fed).attrs)
      /\ \A n \in 1..Len(css_rules) :
             _selector_matches(Append(element_stack, ContextOf(Last(fed))),
                               css_rules[n][1]) # "E" )
    => Last(output).attrs =
           AttrsStr(NewAttrs(Last(fed).attrs,
               ApplicableStyles(Append(element_stack, ContextOf(Last(fed))),
                                css_rules)))

\* The attributes other than style, in order.
OtherAttrs(attrs) == SelectSeq(attrs, LAMBDA a : a[1] # "style")

\* C10: an open tag is emitted with every attribute other than style once,
\* with its name, its value (none if it had none) and in the same order;
\* style keeps its place if it was there and comes last if it was not.
C10_AttributesPreserved ==
    StartTagEmitted
    => LET old == Last(fed).attrs
           new == Last(output).attrs
       IN  /\ OtherAttrs(new) = OtherAttrs(old)
           /\ HasAttr(old, "style")
              => /\ Len(new) = Len(old)
                 /\ \A n \in 1..Len(old) : new[n][1] = old[n][1]
           /\ (~HasAttr(old, "style") /\ HasAttr(new, "style"))
              => /\ Len(new) = Len(old) + 1
                 /\ new[Len(new)][1] = "style"

\* Blocks that hold no declaration: empty, blank, or without a colon.
EmptyBlocks == { BlockEmpty, BlockBlank, BlockNoColon }

\* The lists of up to MaxChunks pieces taken from a set of pieces.
ListsOf(pieces) == UNION {[1..k -> pieces] : k \in 0..MaxChunks}

\* The texts made of blocks without a declaration, blanks and comments.
EmptyTexts ==
    { TextOf(chunks) :
          chunks \in ListsOf(EmptyBlocks \cup {<<" ">>, CommentChunk}) }

\* C11: no rule parse_css returns has an empty declaration map, and a text
\* of nothing but blocks without a declaration (with blanks and comments
\* between them) gives no rule at all.
C11_NoEmptyRule ==
    pc = "return"
    => /\ \A n \in 1..Len(parse_css_rules) : parse_css_rules[n][2] # <<>>
       /\ css_content \in EmptyTexts => parse_css_rules = <<>>

\* A block without a colon stands before a rule and a blank block behind
\* it, and the rule alone is returned.
C11_Witness ==
    /\ pc = "return"
    /\ css_content = BlockNoColon \o RuleP \o BlockBlank
    /\ parse_css_rules = << << <<"p">>, Red >> >>

\* The rule each well-formed piece states.
RuleOf(chunk) ==
    IF chunk = RuleP THEN << << <<"p">>, Red >> >>
    ELSE IF chunk = RuleB THEN << << <<".", "b">>, BlueWithMargin >> >>
    ELSE <<>>

RECURSIVE RulesOf(_)
RulesOf(chunks) ==
    IF chunks = <<>> THEN <<>>
    ELSE RuleOf(chunks[1]) \o RulesOf(Tail(chunks))

\* The texts made of well-formed rules, blocks without a declaration and
\* blanks, each with the rules it states.
StatedRules ==
    { <<TextOf(chunks), RulesOf(chunks)>> :
          chunks \in ListsOf({RuleP, RuleB, <<" ">>} \cup EmptyBlocks) }

\* C12: in a text of well-formed rules and blocks without a declaration,
\* the rules returned are the well-formed ones, each with its own selector
\* text and declarations, in source order.
C12_AnomaliesLocal ==
    pc = "return"
    => \A stated \in StatedRules :
           stated[1] = css_content => parse_css_rules = stated[2]

\* C13: at every point of the scan element_stack, bottom to top, is the
\* sequence of the elements opened and not yet closed around the position;
\* a closed element or a void element is not on it.
C13_AncestorStack == ~raised => element_stack = dom

\* The property names of a style text, one for each declaration written.
StyleProps(text) ==
    LET decls == SelectSeq(Split(text, ";"), LAMBDA d : Contains(d, ":"))
    IN  [n \in 1..Len(decls) |-> Strip(Split1(decls[n], ":")[1])]

EmittedProps == StyleProps(AttrGet(Last(output).attrs, "style", <<>>))

\* C14: an element that some rule matches is emitted with a style attribute
\* whose properties are those of all matching rules and of the inline style
\* together, each written once.
C14_MergedStyleUnion ==
    (StartTagEmitted /\ MatchingIndexes # {})
    => /\ HasAttr(Last(output).attrs, "style")
       /\ {EmittedProps[n] : n \in 1..Len(EmittedProps)}
              = DictKeys(InlineStyleDict)
                    \cup UNION {DictKeys(css_rules[n][2]) : n \in MatchingIndexes}
       /\ \A i, j \in 1..Len(EmittedProps) :
              EmittedProps[i] = EmittedProps[j] => i = j

\* Two matching rules and the inline style share color; one rule alone sets
\* margin, the inline style alone sets width.
C14_Witness ==
    /\ StartTagEmitted
    /\ Cardinality(Setters(<<"color">>)) >= 2
    /\ Cardinality(Setters(<<"margin">>)) = 1
    /\ \E n \in MatchingIndexes : <<"margin">> \notin DictKeys(css_rules[n][2])
    /\ DictKeys(InlineStyleDict) = {<<"color">>, <<"width">>}
    /\ Len(EmittedProps) = 3

\* A > B written without blanks.
ChildTight(A, B) == A \o <<">">> \o B

\* C15: `A>B` matches the element on top of the stack exactly when `A > B`
\* matches it.
C15_ChildWithoutBlanks ==
    \A A \in SimpleSelectors, B \in SimpleSelectors :
        _selector_matches(element_stack, ChildTight(A, B))
            = _selector_matches(element_stack, Child(A, B))

\* The chain the one rule of SpecChain is written as.
WrittenChain == CHOOSE c \in Chains : c.text = css_rules[1][1]

\* The walk of lines 398-435 with the combinators as they are written.
MatchesAsWritten(stack, chain) ==
    /\ Len(chain.parts) <= Len(stack)
    /\ MatchesEntry(Last(chain.parts), Last(stack))
    /\ WalkBack(stack, chain.parts, chain.combinators,
                Len(chain.parts) - 1, Len(stack) - 1)

\* C16: a chain matches the element being opened exactly when the walk
\* that applies, between part i and part i+1, the combinator written between
\* them accepts the stack, however the `>` is spaced.
C16_CombinatorAlignment ==
    (StartTagEmitted /\ css_rules # <<>> /\ css_rules[1][1] \in {c.text : c \in Chains})
    => _selector_matches(element_stack, css_rules[1][1])
           = Bool3(MatchesAsWritten(element_stack, WrittenChain))

\* Whether the backward walk comes to a child combinator when no entry of
\* the stack is left to test.
RECURSIVE ChildAtBottom(_, _, _, _, _)
ChildAtBottom(stack, parts, combinators, i, stack_idx) ==
    IF i < 1 THEN FALSE
    ELSE IF (IF i <= Len(combinators) THEN combinators[i] ELSE SP) = ">"
    THEN IF stack_idx < 1 THEN TRUE
         ELSE /\ MatchesEntry(parts[i], stack[stack_idx])
              /\ ChildAtBottom(stack, parts, combinators, i - 1, stack_idx - 1)
    ELSE LET found == SearchUp(stack, parts[i], stack_idx)
         IN  /\ found # 0
             /\ ChildAtBottom(stack, parts, combinators, i - 1, found - 1)

\* The walk for the one rule of SpecChain over the present stack gets as far
\* as a child combinator with no entry left.
RunsOutAtChild ==
    LET chain == ChainOf(css_rules[1][1])
    IN  /\ Len(chain.parts) <= Len(element_stack)
        /\ MatchesEntry(Last(chain.parts), Last(element_stack))
        /\ ChildAtBottom(element_stack, chain.parts, chain.combinators,
                         Len(chain.parts) - 1, Len(element_stack) - 1)

\* C17: a chain of more simple selectors than the stack is deep, and a chain
\* whose walk comes to a child combinator with no entry left, do not match
\* the element being opened, and no exception is raised.
C17_ChainDeeperThanStack ==
    (fed # <<>> /\ css_rules # <<>>
        /\ css_rules[1][1] \in {c.text : c \in Chains})
    => /\ ~raised
       /\ (Len(WrittenChain.parts) > Len(element_stack) \/ RunsOutAtChild)
          => /\ _selector_matches(element_stack, css_rules[1][1]) = "F"
             /\ ~HasAttr(Last(output).attrs, "style")

\* `.a > div .b` over div, p.b, p.b: the div is found at the bottom and
\* nothing is left for `.a >`.
C17_Witness ==
    /\ Len(fed) = 3
    /\ css_rules # <<>>
    /\ css_rules[1][1] \in {c.text : c \in Chains}
    /\ Len(WrittenChain.parts) = 3
    /\ RunsOutAtChild
    /\ ~raised
    /\ ~HasAttr(Last(output).attrs, "style")

\* Branches of a selector list: simple selectors and chains.
BranchSelectors ==
    SimpleSelectors
        \cup { Descendant(<<".", "a">>, <<".", "b">>),
               Child(<<".", "a">>, <<".", "b">>) }

\* `A,B` and ` A , B `
ListTight(A, B) == A \o <<",">> \o B
ListSpaced(A, B) == <<SP>> \o A \o <<SP, ",", SP>> \o B \o <<SP>>

\* C18: a comma-separated list matches the element on top of the stack
\* exactly when one of its branches, trimmed and taken on its own, does.
C18_SelectorListIsOr ==
    \A A \in BranchSelectors, B \in BranchSelectors :
        LET either == \/ _selector_matches(element_stack, A) = "T"
                      \/ _selector_matches(element_stack, B) = "T"
        IN  /\ (_selector_matches(element_stack, ListTight(A, B)) = "T")
                   = either
            /\ (_selector_matches(element_stack, ListSpaced(A, B)) = "T")
                   = either

\* The rule `#x, p` matches an element through its second branch alone and
\* the element is emitted with the rule's style.
C18_Witness ==
    /\ StartTagEmitted
    /\ \E n \in MatchingIndexes : css_rules[n] = GroupRule
    /\ _selector_matches(element_stack, <<"#", "x">>) = "F"
    /\ _selector_matches(element_stack, <<"p">>) = "T"
    /\ HasAttr(Last(output).attrs, "style")

\* The greatest, in lexicographic order, of the specificities of the
\* branches of a selector (of the selector itself when it is no list).
GroupSpecificity(selector) ==
    LET branches == Split(selector, ",")
        specs == {BranchSpecificity(Strip(branches[n])) : n \in 1..Len(branches)}
    IN  CHOOSE s \in specs : \A t \in specs : ~SpecificityLess(s, t)

\* The matching rules that set p and that no other one exceeds, each rule
\* weighed by GroupSpecificity.
TopByGroup(p) ==
    {n \in Setters(p) :
        \A m \in Setters(p) :
            ~SpecificityLess(GroupSpecificity(css_rules[n][1]),
                             GroupSpecificity(css_rules[m][1]))}

IsGroup(selector) == Contains(selector, ",")

\* C19: where a rule with a selector list is among the matching rules that
\* set a property, the emitted value is that of the last rule of greatest
\* weight, a list being weighed by the greatest specificity of its branches,
\* matching or not.
C19_GroupSpecificityIsMax ==
    StartTagEmitted
    => \A p \in RuleProperties \ DictKeys(InlineStyleDict) :
           (\E n \in Setters(p) : IsGroup(css_rules[n][1]))
           => /\ p \in DictKeys(EmittedStyleDict)
              /\ DictGet(EmittedStyleDict, p)
                     = DictGet(css_rules[Max(TopByGroup(p))][2], p)

\* `#x, p` comes first and matches a p without id x through `p` alone; the
\* later class rule sets another color, and the color of the list is emitted.
C19_Witness ==
    /\ StartTagEmitted
    /\ Len(css_rules) = 2
    /\ css_rules[1] = GroupRule
    /\ css_rules[2][1] = <<".", "b">>
    /\ MatchingIndexes = {1, 2}
    /\ _selector_matches(element_stack, <<"#", "x">>) = "F"
    /\ DictGet(css_rules[2][2], <<"color">>) # <<"red">>
    /\ DictGet(EmittedStyleDict, <<"color">>) = <<"red">>

\* A simple selector as it is meant: a type name or none (""), an id or
\* none (""), and the classes listed.
Simple(type, id, classes) == [type |-> type, id |-> id, classes |-> classes]

\* T, #foo, T#foo, .a.b and T.a.b
SimpleForms ==
    { Simple(t, "", <<>>) : t \in {"p", "div"} }
        \cup { Simple(t, i, <<>>) : t \in {"", "p", "div"}, i \in {"x", "y"} }
        \cup { Simple(t, "", c) :
                   t \in {"", "p", "div"},
                   c \in { <<"a">>, <<"b">>, <<"c">>, <<"a", "b">>, <<"b", "a">>,
                           <<"a", "c">> } }

RECURSIVE ClassText(_)
ClassText(classes) ==
    IF classes = <<>> THEN <<>>
    ELSE <<".", classes[1]>> \o ClassText(Tail(classes))

\* The text the selector is written as.
SimpleText(f) ==
    (IF f.type = "" THEN <<>> ELSE <<f.type>>)
        \o (IF f.id = "" THEN <<>> ELSE <<"#", f.id>>)
        \o ClassText(f.classes)

\* What the selector asks of an element <<tag, id, classes>>.
SimpleHolds(f, entry) ==
    /\ f.type # "" => entry[1] = f.type
    /\ f.id # "" => entry[2] = <<f.id>>
    /\ \A k \in 1..Len(f.classes) :
           \E j \in 1..Len(entry[3]) : entry[3][j] = <<f.classes[k]>>

\* C20: a simple selector T, #foo, T#foo, .a.b or T.a.b matches the element
\* being opened exactly when the tag name is T (if given), the id is foo (if
\* given) and every listed class is among the element's classes.
C20_SimpleSelector ==
    StartTagEmitted
    => \A f \in SimpleForms :
           (_selector_matches(element_stack, SimpleText(f)) = "T")
               = SimpleHolds(f, Last(element_stack))

\* The rule `.b` matches an element of classes a and b with an id, and the
\* rule `.a.b` one whose class list names them in this order.
C20_Witness ==
    /\ StartTagEmitted
    /\ Last(element_stack)[3] = << <<"a">>, <<"b">> >>
    /\ Last(element_stack)[2] = <<"x">>
    /\ \E n \in MatchingIndexes : css_rules[n][1] = <<".", "b">>
    /\ \E n \in MatchingIndexes : css_rules[n][1] = <<".", "a", ".", "b">>
    /\ HasAttr(Last(output).attrs, "style")

\* A[t]: the simple selector A with an attribute selector behind it.
WithAttribute(A) == A \o <<"[", "t", "]">>

\* C21: `A[t]` weighs one class more than A and matches the element on top
\* of the stack exactly when A matches it.
C21_AttributeSelectorNoGate ==
    StartTagEmitted
    => \A A \in SimpleSelectors :
           /\ _calculate_specificity(WithAttribute(A))
                  = << _calculate_specificity(A)[1],
                       _calculate_specificity(A)[2] + 1,
                       _calculate_specificity(A)[3] >>
           /\ _selector_matches(element_stack, WithAttribute(A))
                  = _selector_matches(element_stack, A)

\* The weight of a selector text counted on the text as a whole: its `#`
\* characters, its `.` and `[` characters, and its names that stand at the
\* start of a chain part (first, or behind a blank or `>`).
CountedWeight(selector) ==
    << Count(selector, "#"),
       Count(selector, ".") + Count(selector, "["),
       Cardinality({i \in 1..Len(selector) :
                       /\ IsWord(selector[i])
                       /\ i = 1 \/ selector[i - 1] \in {SP, ">"}}) >>

\* Simple selectors with and without an attribute selector.
WeighedSelectors == SimpleSelectors \cup {WithAttribute(A) : A \in SimpleSelectors}

\* The parts the weighed chains are put together from.
ChainParts ==
    { <<"p">>, <<".", "a", ".", "b">>, <<"p", "#", "x">>,
      WithAttribute(<<"p">>) }

Delivers(ev) == fed' = Append(fed, ev)

\* C23: a close tag of another element than link pops one entry when the
\* top of the stack has its name and leaves the stack as it is otherwise,
\* also when a deeper entry has the name; the close tag is emitted.
C23_CloseTagStackRule ==
    [][\A ev \in EndTags :
           (ev.tag # "link" /\ Delivers(ev))
           => /\ element_stack' =
                     IF element_stack # <<>> /\ Last(element_stack)[1] = ev.tag
                     THEN Front(element_stack)
                     ELSE element_stack
              /\ output' = Append(output, Piece("endtag", ev.tag, <<>>, <<>>))]_vars

\* </div> comes while a p is open inside the div: both stay on the stack
\* and the close tag is emitted.
C23_Witness ==
    /\ Len(fed) = 3
    /\ fed[1].kind = "starttag" /\ fed[1].tag = "div"
    /\ fed[2].kind = "starttag" /\ fed[2].tag = "p"
    /\ fed[3] = Event("endtag", "div", <<>>, <<>>)
    /\ Len(element_stack) = 2
    /\ Last(element_stack)[1] = "p"
    /\ Last(output) = Piece("endtag", "div", <<>>, <<>>)

\* C24: the close tag of a link element that is on the stack (its open tag
\* was no stylesheet link) is emitted and pops the entry.
C24_LinkCloseTagKept ==
    [][(Delivers(Event("endtag", "link", <<>>, <<>>))
           /\ element_stack # <<>> /\ Last(element_stack)[1] = "link")
       => /\ element_stack' = Front(element_stack)
          /\ output' = Append(output, Piece("endtag", "link", <<>>, <<>>))]_vars

\* C25: an open tag that is no stylesheet link pushes one entry, the
\* element's; every other event but a close tag leaves the stack as it was.
C25_StackFrame ==
    [][\A ev \in StartTags \cup StartEndTags
                    \cup {Event("data", "", <<>>, d) : d \in DataTexts}
                    \cup {Event("comment", "", <<>>, d) : d \in Comments}
                    \cup {Event("decl", "", <<>>, d) : d \in Decls} :
           (Delivers(ev) /\ ~raised')
           => element_stack' =
                  IF ev.kind = "starttag" /\ ~IsStylesheetLink(ev.tag, ev.attrs)
                  THEN Append(element_stack, ContextOf(ev))
                  ELSE element_stack]_vars

\* An element is open, then a self-closing tag and a stylesheet link in open
\* form come, and the stack holds the first element alone.
C25_Witness ==
    /\ Len(fed) = 3
    /\ fed[1].kind = "starttag" /\ fed[1].tag = "div"
    /\ fed[2].kind = "startendtag" /\ fed[2].tag = "img"
    /\ fed[3].kind = "starttag" /\ IsStylesheetLink(fed[3].tag, fed[3].attrs)
    /\ element_stack = <<ContextOf(fed[1])>>
    /\ Len(output) = 2

\* C26: every text, comment and declaration is emitted as it was written,
\* character references included; of a text only the bare characters
\* `&`, `<` and `>` are escaped.
C26_PassThrough ==
    [][\A ev \in {Event("data", "", <<>>, d) : d \in DataTexts}
                    \cup {Event("comment", "", <<>>, d) : d \in Comments}
                    \cup {Event("decl", "", <<>>, d) : d \in Decls} :
           Delivers(ev) => output' = Append(output, SourcePiece(ev))]_vars

C28_DroppedLinksLoaded ==
    \A k \in 1..Len(fed) :
        (fed[k].kind \in {"starttag", "startendtag"}
            /\ IsStylesheetLink(fed[k].tag, fed[k].attrs))
        => \E j \in 1..Len(CssFiles(html_content)) :
               CssFiles(html_content)[j] = AttrGet(fed[k].attrs, "href", None)

\* Part i of a chain sits on entry pos of the stack; the parts before it can
\* be put on entries below: directly below for `>`, anywhere below for a
\* blank, each on an entry it matches.
RECURSIVE Assignable(_, _, _, _)
Assignable(stack, chain, i, pos) ==
    IF i = 1 THEN TRUE
    ELSE IF chain.combinators[i - 1] = ">"
    THEN /\ pos > 1
         /\ MatchesEntry(chain.parts[i - 1], stack[pos - 1])
         /\ Assignable(stack, chain, i - 1, pos - 1)
    ELSE \E q \in 1..(pos - 1) :
             /\ MatchesEntry(chain.parts[i - 1], stack[q])
             /\ Assignable(stack, chain, i - 1, q)

\* What the chain means: its last part on the top entry and the others
\* assignable below it.
ChainHolds(stack, chain) ==
    /\ stack # <<>>
    /\ MatchesEntry(Last(chain.parts), Last(stack))
    /\ Assignable(stack, chain, Len(chain.parts), Len(stack))

\* The scan of the chain's text gives the walk the combinators as written.
ReadAsWritten(chain) ==
    /\ ChainOf(chain.text).parts = chain.parts
    /\ \A i \in 1..(Len(chain.parts) - 1) :
           (IF i <= Len(ChainOf(chain.text).combinators)
            THEN ChainOf(chain.text).combinators[i] ELSE SP)
               = chain.combinators[i]

\* C29: a chain that is read as written matches the element being opened
\* exactly when its parts can be assigned to stack entries as the chain
\* means.
C29_GreedyAgreesWithMeaning ==
    (StartTagEmitted /\ css_rules # <<>>
        /\ css_rules[1][1] \in {c.text : c \in Chains}
        /\ ReadAsWritten(WrittenChain))
    => (_selector_matches(element_stack, css_rules[1][1]) = "T")
           = ChainHolds(element_stack, WrittenChain)

(***************************************************************************)
(* SpecTwice: a document is inlined with a rule list and the text that     *)
(* comes out is inlined with the same rule list again.  `result` keeps the *)
(* first inliner's output, `output` is the second inliner's.               *)
(***************************************************************************)
\* Rules of one rule list of SpecTwice.
MaxPassRules == 1

QUOTE == "\""

\* style='font-family: "Arial"'
QuotedStyle == <<"font-family", ":", " ", QUOTE, "Arial", QUOTE>>

TwiceEvents ==
    { Event("starttag", "p", << <<"style", QuotedStyle>> >>, <<>>),
      Event("starttag", "p", << <<"style", InlineStyle>>, <<"id", <<"x">>>>,
                                <<"class", <<"a", " ", "b">>>> >>, <<>>),
      Event("starttag", "input", << <<"disabled", None>>,
                                    <<"class", <<"b">>>> >>, <<>>),
      Event("startendtag", "img", << <<"class", <<"b">>>> >>, <<>>),
      Event("endtag", "p", <<>>, <<>>),
      Event("data", "", <<>>, <<"a", "<", "&amp;", "&nbsp;">>),
      Event("comment", "", <<>>, <<"c">>) }

\* The parser hands over the text between two tags as one data event.
TwiceDocs ==
    { d \in UNION {[1..k -> TwiceEvents] : k \in 0..MaxDoc} :
        \A n \in 1..(Len(d) - 1) : ~(d[n].kind = "data" /\ d[n + 1].kind = "data") }

TwiceRules ==
    { << <<"p">>, Red >>, << <<".", "b">>, BlueWithMargin >>, GroupRule }

TwiceRuleLists == UNION {[1..k -> TwiceRules] : k \in 0..MaxPassRules}

\* Lines 252 and 283: f' {name}="{value}"' for every attribute
RECURSIVE RenderAttrs(_)
RenderAttrs(attrs) ==
    IF attrs = <<>> THEN <<>>
    ELSE <<SP, attrs[1][1], "=", QUOTE>> \o attrs[1][2] \o <<QUOTE>>
             \o RenderAttrs(Tail(attrs))

\* The f-string each callback appends to self.output.
RenderPiece(p) ==
    CASE p.kind = "starttag" -> <<"<", p.tag>> \o RenderAttrs(p.attrs) \o <<">">>
      [] p.kind = "startendtag" ->
             <<"<", p.tag>> \o RenderAttrs(p.attrs) \o <<SP, "/>">>
      [] p.kind = "endtag" -> <<"</", p.tag, ">">>
      [] p.kind = "data" -> p.data
      [] p.kind = "comment" -> <<"<!--">> \o p.data \o <<"-->">>
      [] p.kind = "decl" -> <<"<!">> \o p.data \o <<">">>

\* Line 471: ''.join(self.output)
RECURSIVE get_output(_)
get_output(pieces) ==
    IF pieces = <<>> THEN <<>>
    ELSE RenderPiece(pieces[1]) \o get_output(Tail(pieces))

\* str.lower() as the parser applies it to attribute names.
Lower(token) == IF token = "Arial" THEN "arial" ELSE token

\* The tokens of a name put together as one name.
RECURSIVE NameOf(_)
NameOf(tokens) ==
    IF tokens = <<>> THEN "" ELSE Lower(tokens[1]) \o NameOf(Tail(tokens))

\* What the parser reads behind the quote that closes a value: every
\* stretch without a blank is the name of an attribute without a value (the
\* stretches here hold no `=`, `/` or `>`).
ReadNames(text) ==
    LET names == SplitWs(text)
    IN  [n \in 1..Len(names) |-> <<NameOf(names[n]), None>>]

\* The parser reads ` name="value"` back: the value ends at the first quote
\* and has its character references replaced; what stands between that
\* quote and the quote the f-string wrote is read as further attributes.
ReadAttr(name, value) ==
    LET quotes == {q \in 1..Len(value) : value[q] = QUOTE}
    IN  IF quotes = {} THEN << <<name, Unescape(value)>> >>
        ELSE << <<name, Unescape(SubSeq(value, 1, Min(quotes) - 1))>> >>
                 \o ReadNames(SubSeq(value, Min(quotes) + 1, Len(value))
                                  \o <<QUOTE>>)

RECURSIVE ReadAttrs(_)
ReadAttrs(attrs) ==
    IF attrs = <<>> THEN <<>>
    ELSE ReadAttr(attrs[1][1], attrs[1][2]) \o ReadAttrs(Tail(attrs))

\* Line 509 on the text of line 471: the events feed() delivers for the
\* pieces a CSSInliner has written.
Reparse(pieces) ==
    [n \in 1..Len(pieces) |->
        IF pieces[n].kind \in {"starttag", "startendtag"}
        THEN Event(pieces[n].kind, pieces[n].tag, ReadAttrs(pieces[n].attrs), <<>>)
        ELSE pieces[n]]

InitTwice ==
    /\ css_rules \in TwiceRuleLists
    /\ html_content \in TwiceDocs
    /\ pc = "feed"
    /\ element_stack = <<>>
    /\ output = <<>>
    /\ raised = FALSE
    /\ fed = <<>>
    /\ dom = <<>>
    /\ matched = FALSE
    /\ template_dir = <<>>
    /\ result = <<>>
    /\ css_content = <<>>
    /\ parse_css_rules = <<>>

\* Lines 197-201 and 508: a new CSSInliner on the same rules, for the text
\* the first one returned.
inline_again ==
    /\ pc = "return"
    /\ html_content' = Reparse(result)
    /\ element_stack' = <<>>
    /\ output' = <<>>
    /\ fed' = <<>>
    /\ dom' = <<>>
    /\ matched' = FALSE
    /\ pc' = "again"
    /\ UNCHANGED <<css_rules, raised, template_dir, result, css_content,
                   parse_css_rules>>

\* Line 509, second inliner
feed_again ==
    /\ pc = "again"
    /\ ~raised
    /\ Len(fed) < Len(html_content)
    /\ Handle(html_content[Len(fed) + 1])
    /\ Delivered(html_content[Len(fed) + 1])

\* Line 511, second inliner
return_again ==
    /\ pc = "again"
    /\ ~raised
    /\ Len(fed) = Len(html_content)
    /\ pc' = "done"
    /\ UNCHANGED <<css_rules, element_stack, output, raised, fed, dom,
                   matched, html_content, template_dir, result, css_content,
                   parse_css_rules>>

NextTwice ==
    inline_css_feed \/ inline_css_return \/ inline_again \/ feed_again
        \/ return_again

SpecTwice == InitTwice /\ [][NextTwice]_vars

\* C30: the text the second inliner gives for the first one's output is
\* the first one's output.
C30_SecondPassSame ==
    pc = "done" => get_output(output) = get_output(result)

====
